---- MODULE Spec2Model ----
(***************************************************************************)
(* Model of src/index.py, the Coleman async downloader: the __main__       *)
(* empty-queue guard, main (semaphore, warm-up, product fan-out),          *)
(* handle_product, fetch_html, save_descriptions / translate_text and      *)
(* download_image.  One action is one scheduling step of the asyncio event *)
(* loop: the code that runs between two suspension points (await).         *)
(* Servers, the translation provider and the file system are the           *)
(* environment: their answers are chosen with \E in the step that          *)
(* receives them.                                                          *)
(***************************************************************************)
EXTENDS Integers, Sequences, FiniteSets, TLC

\* ------------------------------------------------------------ configuration
\* index.py:32
MAX_RETRIES == 3
\* index.py:31, where it is 10: scaled down so that the slides of one product
\* outnumber the permits, as the 15 slides of index.py:33 do
MAX_CONN == 1
\* the number of description lines of the catalog's full page
NumLines == 2

\* The catalog: two product ids, and index.py:33 (range(1, 16)) cut to two
\* slides.
Products == {1, 2}
SLIDE_RANGE == 1..2
\* out_dir / f"{slide}.jpg" with out_dir = Path(pid)
Paths == Products \X SLIDE_RANGE

\* ------------------------------------------------------- pages and text
\* A text is a sequence of tokens; the empty text is <<>>.
Blank == <<>>
JpLine(i) == <<"jp", ToString(i)>>
NL == <<"\n">>

\* URLs and src attributes are sequences of tokens, "/" a token of its own.
NoSrc == <<>>
Origin == <<"https:", "/", "/", "ec.coleman.co.jp">>
ProtoRelSrc(s) == <<"/", "/", "cdn.example", "/", ToString(s)>>
RootRelSrc(s) == <<"/", "img", "/", ToString(s)>>
AbsoluteSrc(s) == <<"https:", "/", "/", "cdn.example", "/", ToString(s)>>
\* a src relative to the page's own URL, as HTML allows
RelativeSrc(s) == <<"img", "/", ToString(s)>>
\* an absolute URL: a scheme, "//" and a host
Absolute(url) ==
  /\ Len(url) > 3
  /\ url[1] \in {"http:", "https:"}
  /\ url[2] = "/" /\ url[3] = "/" /\ url[4] # "/"

\* A fetched page as BeautifulSoup sees it: whether <ul class=p-item_info_indt>
\* is there, the get_text(strip=True) of its <li>s, and the img src of the
\* element of each data-slide (NoSrc: no element, no img, or no src).
NoPage == [hasUl |-> FALSE, lis |-> <<>>, imgs |-> [s \in SLIDE_RANGE |-> NoSrc]]
PageFull ==
  [hasUl |-> TRUE,
   lis |-> [k \in 1..(2 * NumLines - 1) |->
              IF k % 2 = 1 THEN JpLine((k + 1) \div 2) ELSE Blank],
   imgs |-> [s \in SLIDE_RANGE |->
              IF s = 1 THEN ProtoRelSrc(s)
              ELSE IF s = 2 THEN RootRelSrc(s) ELSE AbsoluteSrc(s)]]
PageNoUl ==
  [hasUl |-> FALSE, lis |-> <<>>,
   imgs |-> [s \in SLIDE_RANGE |-> IF s = 1 THEN AbsoluteSrc(s) ELSE NoSrc]]
PageRelative ==
  [hasUl |-> TRUE, lis |-> <<Blank, Blank>>,
   imgs |-> [s \in SLIDE_RANGE |-> IF s = 2 THEN RelativeSrc(s) ELSE NoSrc]]
PageBlankUl ==
  [hasUl |-> TRUE, lis |-> <<Blank>>, imgs |-> [s \in SLIDE_RANGE |-> NoSrc]]

\* The catalog: the pages the site can serve for a product id.
Pages(p) == IF p = 1 THEN {PageFull} ELSE {PageNoUl, PageBlankUl, PageRelative}

\* What a GET can end in: an HTTP status, a timeout or a transport exception.
HttpOutcomes == {"200", "404", "403", "500", "timeout", "exception"}
\* What opening and writing a file can end in.
DiskOutcomes == {"ok", "open_fails", "write_fails"}
\* An image reply: the outcome of the GET, the body of a 200, and what the
\* write of a non-empty body ends in.
ImageReplies ==
  {[status |-> "200", body |-> "data", disk |-> w] : w \in DiskOutcomes}
  \cup {[status |-> "200", body |-> "empty", disk |-> "ok"]}
  \cup {[status |-> s, body |-> "none", disk |-> "ok"] : s \in HttpOutcomes \ {"200"}}
\* session.get(url), line 122: the session has no base_url, so a URL without
\* scheme and host raises InvalidURL before anything is sent
RepliesTo(url) ==
  IF Absolute(url) THEN ImageReplies
  ELSE {[status |-> "exception", body |-> "none", disk |-> "ok"]}

\* ------------------------------------------------------------ the state
VARIABLES
  queue,    \* __main__: the de-duplicated product ids entered by the operator
  mainpc,   \* where __main__ / main stands
  warm,     \* number of warm-up GETs issued to the origin root
  sem,      \* asyncio.Semaphore(MAX_CONN)._value (0 before main creates it)
  holders,  \* the download tasks inside "async with sem"
  prod,     \* per product: the handle_product task
  dl,       \* per path: the download_image task
  file,     \* per path: the image file on disk: absent, empty (length 0),
            \* data (length > 0) or broken (there, but stat raises OSError)
  dirs,     \* the product directories that exist
  jpfile,   \* per product: <pid>.jp.txt
  vifile    \* per product: <pid>.vi.txt

vars == <<queue, mainpc, warm, sem, holders, prod, dl, file, dirs, jpfile, vifile>>

NoFile == [exists |-> FALSE, content |-> <<>>]
Pending == <<"pending">>

IdleProduct ==
  [st |-> "idle", attempt |-> 0, reqs |-> 0, fails |-> 0, sleeps |-> 0,
   got404 |-> FALSE, fetch |-> "none", page |-> NoPage, trans |-> <<>>,
   terr |-> {}, tlog |-> 0, delays |-> <<>>, logged |-> 0]
NoTask ==
  [st |-> "none", attempt |-> 0, reqs |-> 0, fails |-> 0, sleeps |-> 0,
   got404 |-> FALSE, writes |-> 0, acq |-> 0, found |-> "absent", url |-> NoSrc, created |-> 0,
   delays |-> <<>>, logged |-> 0, cancelledIn |-> "none"]

\* Disks the run can start on: a fresh one, and the one an earlier run left
\* (product 1: slide 1 downloaded, the next slide's file damaged; the other
\* products: slide 1 cut to length 0).
FreshDisk == [d \in Paths |-> "absent"]
PriorDisk ==
  [d \in Paths |->
     IF d[1] = 1 THEN (IF d[2] = 1 THEN "data" ELSE IF d[2] = 2 THEN "broken" ELSE "absent")
     ELSE (IF d[2] = 1 THEN "empty" ELSE "absent")]
InitDisks == {FreshDisk, PriorDisk}
DirsOf(disk) == {p \in Products : \E s \in SLIDE_RANGE : disk[<<p, s>>] # "absent"}

Init ==
  /\ queue \in SUBSET Products
  /\ mainpc = "check"
  /\ warm = 0
  /\ sem = 0
  /\ holders = {}
  /\ prod = [p \in Products |-> IdleProduct]
  /\ dl = [d \in Paths |-> NoTask]
  /\ file \in InitDisks
  /\ dirs = DirsOf(file)
  /\ jpfile = [p \in Products |-> NoFile]
  /\ vifile = [p \in Products |-> NoFile]


\* ---------------------------------------------------- pure helpers
\* A guard that never sees the queue empty.
QueueEmptyNever(q) == FALSE
\* __main__, line 419: "if not queue"
QueueEmpty(q) == q = {}

\* A classification that retries a 404 like any other status.
ClassifyRetry404(status) == IF status = "200" THEN "ok" ELSE "transient"
\* fetch_html, lines 74-87: what one attempt's outcome means
Classify(status) ==
  IF status = "200" THEN "ok"
  ELSE IF status = "404" THEN "notfound"
  ELSE "transient"

\* A loop bound that is off by one: one attempt too many.
MoreAttemptsOffByOne(attempt, retries) == attempt < retries
\* lines 71/89 and 120/144: after a failed attempt number `attempt` (from 0)
\* the loop sleeps and goes on iff this holds; otherwise it ends
MoreAttempts(attempt, retries) == attempt < retries - 1

\* An exit of "async with sem" that keeps the permits.
ReleaseNothing(value, n) == value
\* Semaphore.release, once for each of the n tasks that leave "async with
\* sem" (line 111)
Release(value, n) == value + n

\* Sleep lengths are counted in half seconds.
\* A backoff without the half second added.
FetchDelayNoBase(attempt) == 2 * (2 ^ attempt)
\* fetch_html, line 91: 2 ** attempt + 0.5 seconds
FetchDelay(attempt) == 2 * (2 ^ attempt) + 1
\* download_image, line 145: 1 * (attempt + 1) seconds
DlDelay(attempt) == 2 * (1 * (attempt + 1))

\* The records one attempt appends to the log (the field "logged" of a task
\* holds those of its current attempt).
\* fetch_html, lines 74-94: none for the text of a 200, the error of a 404,
\* the warning of any other outcome, and after the last attempt the error of
\* line 94 as well
FetchLog(c, more) ==
  IF c = "ok" THEN 0 ELSE IF c = "notfound" THEN 1 ELSE IF more THEN 1 ELSE 2
\* download_image, lines 123-147: none for a written body, one warning for
\* a 404, an empty body, another status, a timeout or an exception (that of a
\* failed write too), and after the last attempt the error of line 147
DlLog(kind, more) ==
  IF kind = "written" THEN 0 ELSE IF kind = "notfound" THEN 1 ELSE IF more THEN 1 ELSE 2
\* download_image, lines 104-107: the return of the pre-check logs nothing
SkipLog == 0

\* A handle_product that goes on to the descriptions without a page.
HtmlNoneGoesOn == "writing_jp"
\* A handle_product without the None check: parsing None raises.
HtmlNoneRaises == "raised"
\* handle_product, lines 187-188: "if html is None: return"
HtmlNoneResult == "failed"

NonBlank(t) == t # Blank
\* A filter that keeps the blank lines.
JpLinesWithBlanks(page) == IF page.hasUl THEN page.lis ELSE <<>>
\* save_descriptions, lines 161-168: the non-blank li texts, in page order
JpLines(page) == IF page.hasUl THEN SelectSeq(page.lis, NonBlank) ELSE <<>>

\* GoogleTranslator.translate of one line
Translate(line) == <<"vi", line[2]>>
\* A translate_text that gives the empty text when the provider raises.
TranslateTextDropsLine(line, outcome) == IF outcome = "ok" THEN Translate(line) ELSE Blank
\* translate_text, lines 150-157: the provider's answer, or the line itself
TranslateText(line, outcome) == IF outcome = "ok" THEN Translate(line) ELSE line

\* translate_text, lines 155-156: the records it appends to the log
TranslateLog(outcome) == IF outcome = "ok" THEN 0 ELSE 1

\* A join that collects results in the order they arrive.
JoinOnCompletion(results, i, r) ==
  LET k == CHOOSE j \in DOMAIN results :
             /\ results[j] = <<"pending">>
             /\ \A m \in DOMAIN results : m < j => results[m] # <<"pending">>
  IN [results EXCEPT ![k] = r]
\* asyncio.gather, line 177: the result of the i-th awaitable goes to slot i
Join(results, i, r) == [results EXCEPT ![i] = r]

\* A gather that returns with the first result.
FirstReturned(results) == \E k \in DOMAIN results : results[k] # <<"pending">>
\* asyncio.gather, line 177: it returns when every awaitable has returned
AllReturned(results) == \A k \in DOMAIN results : results[k] # <<"pending">>

\* "\n".join(lines), lines 173 and 181
RECURSIVE JoinNL(_)
JoinNL(lines) ==
  IF lines = <<>> THEN <<>>
  ELSE IF Len(lines) = 1 THEN <<lines[1]>>
  ELSE <<lines[1], NL>> \o JoinNL(Tail(lines))

\* str.startswith
StartsWith(t, prefix) ==
  /\ Len(t) >= Len(prefix)
  /\ SubSeq(t, 1, Len(prefix)) = prefix

\* handle_product, lines 205-208
Normalize(src) ==
  IF StartsWith(src, <<"/", "/">>) THEN <<"https:">> \o src
  ELSE IF StartsWith(src, <<"/">>) THEN Origin \o src
  ELSE src

\* handle_product, lines 198-204: the slides that become a download task
SlideTasks(page) == {s \in SLIDE_RANGE : page.imgs[s] # NoSrc}

\* handle_product, lines 197-215: the download tasks created for product p,
\* and where the product stands after creating them
ImagingDl(p, page) ==
  [d \in Paths |->
     IF d[1] = p /\ d[2] \in SlideTasks(page)
       THEN [dl[d] EXCEPT !.st = "new", !.url = Normalize(page.imgs[d[2]]),
                          !.created = @ + 1]
       ELSE dl[d]]
ImagingSt(page) == IF SlideTasks(page) = {} THEN "done" ELSE "imaging"

ProductOver(st) == st \in {"done", "failed", "raised", "cancelled"}
TaskOver(st) ==
  st \in {"none", "skipped", "downloaded", "notfound", "exhausted", "cancelled"}

\* ------------------------------------------------------------ __main__ / main
\* lines 419-423 and 218-245: an empty queue ends the program; otherwise main
\* creates the semaphore and the session and issues the warm-up GET
Start ==
  /\ mainpc = "check"
  /\ IF QueueEmpty(queue)
       THEN /\ mainpc' = "exit"
            /\ UNCHANGED <<warm, sem>>
       ELSE /\ mainpc' = "warmup"
            /\ sem' = MAX_CONN
            /\ warm' = warm + 1
  /\ UNCHANGED <<queue, holders, prod, dl, file, dirs, jpfile, vifile>>

\* lines 245-254: whatever the warm-up ends in (200, another status, an
\* exception) is logged; then one handle_product task per queued id starts and
\* issues the first GET of fetch_html
WarmupDone ==
  /\ mainpc = "warmup"
  /\ \E outcome \in HttpOutcomes :
       /\ mainpc' = "gather"
       /\ prod' = [p \in Products |->
                     IF p \in queue
                       THEN [prod[p] EXCEPT !.st = "fetching", !.reqs = 1]
                       ELSE prod[p]]
  /\ UNCHANGED <<queue, warm, sem, holders, dl, file, dirs, jpfile, vifile>>

\* line 254: gather returns once every product task has returned
MainReturn ==
  /\ mainpc = "gather"
  /\ \A p \in queue : prod[p].st \in {"done", "failed"}
  /\ mainpc' = "returned"
  /\ UNCHANGED <<queue, warm, sem, holders, prod, dl, file, dirs, jpfile, vifile>>

\* line 254: tqdm_asyncio.gather awaits the tasks as they complete and has no
\* return_exceptions; the exception of a product task is raised in main, it
\* leaves the session's "async with" and asyncio.run (line 423) cancels every
\* task still running.  A cancelled download leaves "async with sem", which
\* releases its permit; cancelledIn keeps where the task stood.
MainCrash ==
  /\ mainpc = "gather"
  /\ \E p \in queue : prod[p].st = "raised"
  /\ mainpc' = "crashed"
  /\ prod' = [p \in Products |->
                IF p \in queue /\ ~ProductOver(prod[p].st)
                  THEN [prod[p] EXCEPT !.st = "cancelled"] ELSE prod[p]]
  /\ dl' = [d \in Paths |->
              IF TaskOver(dl[d].st) THEN dl[d]
              ELSE [dl[d] EXCEPT !.st = "cancelled", !.cancelledIn = dl[d].st]]
  /\ sem' = Release(sem, Cardinality(holders))
  /\ holders' = {}
  /\ UNCHANGED <<queue, warm, file, dirs, jpfile, vifile>>

\* ------------------------------------------------------------ fetch_html
\* lines 73-95 with handle_product lines 186-215 up to its next await: the
\* answer to the page GET of product p.
\*   200: fetch_html returns the text (its frame, with the attempt counters,
\*        is gone), the page is parsed, the directory made (making a new one
\*        may raise; exist_ok covers the one that is there), and
\*        save_descriptions runs up to the opening of <pid>.jp.txt; without
\*        lines it returns at once and the download tasks are created;
\*   404: logged, None returned, no retry;
\*   otherwise: logged; sleep before the next attempt, or give up.
FetchResponse(p) ==
  /\ mainpc = "gather"
  /\ prod[p].st = "fetching"
  /\ \E status \in HttpOutcomes :
       LET c == Classify(status) IN
       IF c = "ok" THEN
         \E page \in Pages(p), mkdirOk \in (IF p \in dirs THEN {TRUE} ELSE BOOLEAN) :
           LET got == [prod[p] EXCEPT !.fetch = "html", !.page = page,
                                      !.attempt = 0, !.reqs = 0, !.fails = 0,
                                      !.sleeps = 0, !.delays = <<>>,
                                      !.logged = FetchLog(c, TRUE)]
           IN
           IF ~mkdirOk THEN
             /\ prod' = [prod EXCEPT ![p] = [got EXCEPT !.st = "raised"]]
             /\ UNCHANGED <<dl, dirs>>
           ELSE
             /\ dirs' = dirs \cup {p}
             /\ IF JpLines(page) = <<>>
                  THEN /\ prod' = [prod EXCEPT ![p] = [got EXCEPT !.st = ImagingSt(page)]]
                       /\ dl' = ImagingDl(p, page)
                  ELSE /\ prod' = [prod EXCEPT ![p] = [got EXCEPT !.st = "writing_jp"]]
                       /\ UNCHANGED dl
       ELSE IF c = "notfound" THEN
         /\ prod' = [prod EXCEPT ![p].st = HtmlNoneResult, ![p].fetch = "notfound",
                                 ![p].got404 = TRUE,
                                 ![p].logged = FetchLog(c, TRUE)]
         /\ UNCHANGED <<dl, dirs>>
       ELSE IF MoreAttempts(prod[p].attempt, MAX_RETRIES) THEN
         /\ prod' = [prod EXCEPT ![p].st = "fetch_sleep", ![p].sleeps = @ + 1,
                                 ![p].delays = Append(@, FetchDelay(prod[p].attempt)),
                                 ![p].fails = @ + 1,
                                 ![p].got404 = @ \/ status = "404",
                                 ![p].logged = FetchLog(c, TRUE)]
         /\ UNCHANGED <<dl, dirs>>
       ELSE
         /\ prod' = [prod EXCEPT ![p].st = HtmlNoneResult, ![p].fetch = "exhausted",
                                 ![p].fails = @ + 1,
                                 ![p].got404 = @ \/ status = "404",
                                 ![p].logged = FetchLog(c, FALSE)]
         /\ UNCHANGED <<dl, dirs>>
  /\ UNCHANGED <<queue, mainpc, warm, sem, holders, file, jpfile, vifile>>

\* lines 92 and 71-73: the backoff sleep ends and the next attempt's GET goes out
FetchWake(p) ==
  /\ mainpc = "gather"
  /\ prod[p].st = "fetch_sleep"
  /\ prod' = [prod EXCEPT ![p].st = "fetching", ![p].attempt = @ + 1,
                          ![p].reqs = @ + 1, ![p].logged = 0]
  /\ UNCHANGED <<queue, mainpc, warm, sem, holders, dl, file, dirs, jpfile, vifile>>

\* ------------------------------------------------------ save_descriptions
\* What a failed "w" open-and-write leaves: a failed open leaves the file as
\* it was, a failed write leaves the file open() truncated.
WrittenFile(old, content, outcome) ==
  IF outcome = "ok" THEN [exists |-> TRUE, content |-> content]
  ELSE IF outcome = "write_fails" THEN [exists |-> TRUE, content |-> <<>>]
  ELSE old

\* lines 171-177: <pid>.jp.txt is written (an error raises out of
\* handle_product); then one translate_text per line is started
WriteJP(p) ==
  /\ mainpc = "gather"
  /\ prod[p].st = "writing_jp"
  /\ \E outcome \in DiskOutcomes :
       /\ jpfile' = [jpfile EXCEPT
                       ![p] = WrittenFile(@, JoinNL(JpLines(prod[p].page)), outcome)]
       /\ IF outcome = "ok"
            THEN prod' = [prod EXCEPT
                            ![p].st = "translating",
                            ![p].trans = [i \in 1..Len(JpLines(prod[p].page)) |-> Pending]]
            ELSE prod' = [prod EXCEPT ![p].st = "raised"]
  /\ UNCHANGED <<queue, mainpc, warm, sem, holders, dl, file, dirs, vifile>>

\* lines 150-157 and 177-180: the translation of line i returns (the provider's
\* text, or on its error the line itself, the error logged); gather keeps it at
\* position i; with the last one in, <pid>.vi.txt is opened.  terr are the
\* lines the provider raised on, tlog the records translate_text logged.
TranslateReturn(p, i) ==
  /\ mainpc = "gather"
  /\ prod[p].st = "translating"
  /\ i \in DOMAIN prod[p].trans
  /\ prod[p].trans[i] = Pending
  /\ \E outcome \in {"ok", "error"} :
       LET res == Join(prod[p].trans, i,
                       TranslateText(JpLines(prod[p].page)[i], outcome)) IN
       prod' = [prod EXCEPT
                  ![p].trans = res,
                  ![p].terr = IF outcome = "error" THEN @ \cup {i} ELSE @,
                  ![p].tlog = @ + TranslateLog(outcome),
                  ![p].st = IF AllReturned(res) THEN "writing_vi" ELSE "translating"]
  /\ UNCHANGED <<queue, mainpc, warm, sem, holders, dl, file, dirs, jpfile, vifile>>

\* lines 179-182 and 197-215: <pid>.vi.txt is written (an error raises out of
\* handle_product); then the download tasks are created
WriteVI(p) ==
  /\ mainpc = "gather"
  /\ prod[p].st = "writing_vi"
  /\ \E outcome \in DiskOutcomes :
       /\ vifile' = [vifile EXCEPT ![p] = WrittenFile(@, JoinNL(prod[p].trans), outcome)]
       /\ IF outcome = "ok"
            THEN /\ prod' = [prod EXCEPT ![p].st = ImagingSt(prod[p].page)]
                 /\ dl' = ImagingDl(p, prod[p].page)
            ELSE /\ prod' = [prod EXCEPT ![p].st = "raised"]
                 /\ UNCHANGED dl
  /\ UNCHANGED <<queue, mainpc, warm, sem, holders, file, dirs, jpfile>>


\* ---------------------------------------------------------- download_image
\* A pre-check with the size comparison inverted.
AlreadyDownloadedInverted(f) == f # "absent" /\ f # "broken" /\ f # "data"
\* lines 104-109: path.exists(), stat() does not raise OSError, st_size > 0
AlreadyDownloaded(f) == f # "absent" /\ f # "broken" /\ f # "empty"

\* A gate that admits every task.
CanAcquireAlways(value) == TRUE
\* asyncio.Semaphore.acquire: a permit is free.  (From Python 3.11 a task that
\* arrives while others wait queues behind them; the model admits it, as
\* 3.10 does, which allows every order of admission.)
CanAcquire(value) == value > 0

\* lines 123-142: what one attempt's reply means
ClassifyImage(r) ==
  IF r.status = "200" THEN
    IF r.body = "data" THEN (IF r.disk = "ok" THEN "written" ELSE "transient")
    ELSE "empty"
  ELSE IF r.status = "404" THEN "notfound"
  ELSE "transient"

\* A loop that misses the "return" after the write (line 128).
DlOutcomeNoReturn(kind, attempt, retries) ==
  IF kind = "notfound" THEN "notfound"
  ELSE IF attempt < retries - 1 THEN "sleeping"
  ELSE "exhausted"
\* lines 123-147: where the task goes after an attempt of that kind
DlOutcome(kind, attempt, retries) ==
  IF kind = "written" THEN "downloaded"
  ELSE IF kind = "notfound" THEN "notfound"
  ELSE IF MoreAttempts(attempt, retries) THEN "sleeping"
  ELSE "exhausted"

\* lines 126-127: aiofiles.open(path, "wb") and f.write(data)
ImageFile(old, r) ==
  IF r.status = "200" /\ r.body = "data"
    THEN (IF r.disk = "ok" THEN "data"
          ELSE IF r.disk = "write_fails" THEN "empty" ELSE old)
    ELSE old

\* line 213: a product's gather returns when all its download tasks are over
ImagingOver(p, tasks) == \A s \in SLIDE_RANGE : TaskOver(tasks[<<p, s>>].st)

\* lines 104-122: the task's first step.  A file with data ends it; otherwise
\* it enters "async with sem": with a permit free it takes it and issues the
\* first GET, else it waits.
DlStart(d) ==
  /\ mainpc = "gather"
  /\ dl[d].st = "new"
  /\ IF AlreadyDownloaded(file[d]) THEN
       /\ dl' = [dl EXCEPT ![d].st = "skipped", ![d].found = file[d],
                           ![d].logged = SkipLog]
       /\ prod' = [prod EXCEPT ![d[1]].st =
                     IF ImagingOver(d[1], dl') THEN "done" ELSE @]
       /\ UNCHANGED <<sem, holders>>
     ELSE IF CanAcquire(sem) THEN
       /\ sem' = sem - 1
       /\ holders' = holders \cup {d}
       /\ dl' = [dl EXCEPT ![d].st = "inflight", ![d].found = file[d],
                           ![d].reqs = @ + 1, ![d].acq = @ + 1]
       /\ UNCHANGED prod
     ELSE
       /\ dl' = [dl EXCEPT ![d].st = "waiting", ![d].found = file[d]]
       /\ UNCHANGED <<sem, holders, prod>>
  /\ UNCHANGED <<queue, mainpc, warm, file, dirs, jpfile, vifile>>

\* line 111: a waiting task gets a permit and issues its first GET
DlAcquire(d) ==
  /\ mainpc = "gather"
  /\ dl[d].st = "waiting"
  /\ CanAcquire(sem)
  /\ sem' = sem - 1
  /\ holders' = holders \cup {d}
  /\ dl' = [dl EXCEPT ![d].st = "inflight", ![d].reqs = @ + 1, ![d].acq = @ + 1]
  /\ UNCHANGED <<queue, mainpc, warm, prod, file, dirs, jpfile, vifile>>

\* lines 122-147: the reply to the image GET of task d.  A non-empty 200 body
\* is written and the task returns; a 404 returns; anything else (an empty
\* body, another status, a timeout, an exception, a failed write) is logged
\* and retried after a sleep, or ends the task after the last attempt.
\* Leaving "async with sem" releases the permit; the product's gather returns
\* with its last task.
DlResponse(d) ==
  /\ mainpc = "gather"
  /\ dl[d].st = "inflight"
  /\ \E r \in RepliesTo(dl[d].url) :
       LET kind == ClassifyImage(r)
           next == DlOutcome(kind, dl[d].attempt, MAX_RETRIES)
       IN
       /\ file' = [file EXCEPT ![d] = ImageFile(@, r)]
       /\ dl' = [dl EXCEPT ![d].st = next,
                           ![d].writes = IF kind = "written" THEN @ + 1 ELSE @,
                           ![d].got404 = @ \/ r.status = "404",
                           ![d].fails = IF next \in {"sleeping", "exhausted"}
                                          THEN @ + 1 ELSE @,
                           ![d].sleeps = IF next = "sleeping" THEN @ + 1 ELSE @,
                           ![d].delays = IF next = "sleeping"
                                           THEN Append(@, DlDelay(dl[d].attempt)) ELSE @,
                           ![d].logged =
                             DlLog(kind, MoreAttempts(dl[d].attempt, MAX_RETRIES))]
       /\ IF next = "sleeping"
            THEN UNCHANGED <<sem, holders, prod>>
            ELSE /\ sem' = Release(sem, 1)
                 /\ holders' = holders \ {d}
                 /\ prod' = [prod EXCEPT ![d[1]].st =
                               IF ImagingOver(d[1], dl') THEN "done" ELSE @]
  /\ UNCHANGED <<queue, mainpc, warm, dirs, jpfile, vifile>>

\* lines 145 and 120-122: the backoff sleep ends and the next GET goes out
DlWake(d) ==
  /\ mainpc = "gather"
  /\ dl[d].st = "sleeping"
  /\ dl' = [dl EXCEPT ![d].st = "inflight", ![d].attempt = @ + 1, ![d].reqs = @ + 1,
                      ![d].logged = 0]
  /\ UNCHANGED <<queue, mainpc, warm, sem, holders, prod, file, dirs, jpfile, vifile>>

\* ------------------------------------------------------------ specification
Next ==
  \/ Start
  \/ WarmupDone
  \/ MainReturn
  \/ MainCrash
  \/ \E p \in Products : FetchResponse(p)
  \/ \E p \in Products : FetchWake(p)
  \/ \E p \in Products : WriteJP(p)
  \/ \E p \in Products : \E i \in 1..NumLines : TranslateReturn(p, i)
  \/ \E p \in Products : WriteVI(p)
  \/ \E d \in Paths : DlStart(d)
  \/ \E d \in Paths : DlAcquire(d)
  \/ \E d \in Paths : DlResponse(d)
  \/ \E d \in Paths : DlWake(d)

Spec == Init /\ [][Next]_vars


\* ------------------------------------------------------------------ claims
RunOver == mainpc \in {"returned", "crashed"}
InFlight == {d \in Paths : dl[d].st = "inflight"}
FetchFailed(p) == prod[p].fetch \in {"notfound", "exhausted"}

\* C1: a download_image called on a path that holds data ends as skipped,
\* having issued no request, taken no permit and left the file as it was.
C1_SkipExisting ==
  \A d \in Paths :
    (dl[d].found = "data" /\ dl[d].st \notin {"none", "new"}) =>
      /\ dl[d].st = "skipped"
      /\ dl[d].reqs = 0
      /\ dl[d].acq = 0
      /\ d \notin holders
      /\ dl[d].writes = 0
      /\ file[d] = "data"

C1_Witness ==
  \E d \in Paths : dl[d].st = "skipped" /\ dl[d].found = "data" /\ RunOver

\* C2: at most MAX_CONN image GETs are in flight, each issued by a task that
\* holds a permit of the one semaphore, whose permits are all accounted for.
C2_BoundedInFlight ==
  /\ Cardinality(InFlight) <= MAX_CONN
  /\ InFlight \subseteq holders
  /\ Cardinality(holders) <= MAX_CONN
  /\ sem >= 0
  /\ mainpc \notin {"check", "exit"} => sem + Cardinality(holders) = MAX_CONN

C2_Witness ==
  /\ Cardinality(InFlight) = MAX_CONN
  /\ \E d \in Paths : dl[d].st = "waiting" /\ \E e \in InFlight : d[1] # e[1]
  /\ \E d \in Paths : dl[d].st = "waiting" /\ \E e \in InFlight : d[1] = e[1]

\* C3: a page fetch or image download never makes more than MAX_RETRIES
\* attempts, and it ends exhausted exactly when MAX_RETRIES attempts have
\* failed transiently, which is then every attempt it made.
C3_RetryCeiling ==
  /\ \A p \in Products :
       /\ prod[p].reqs <= MAX_RETRIES
       /\ prod[p].fails <= prod[p].reqs
       /\ (prod[p].fetch = "exhausted") <=> (prod[p].fails = MAX_RETRIES)
       /\ prod[p].fetch = "exhausted" => prod[p].reqs = MAX_RETRIES
  /\ \A d \in Paths :
       /\ dl[d].reqs <= MAX_RETRIES
       /\ dl[d].fails <= dl[d].reqs
       /\ (dl[d].st = "exhausted") <=> (dl[d].fails = MAX_RETRIES)
       /\ dl[d].st = "exhausted" => dl[d].reqs = MAX_RETRIES

C3_Witness ==
  /\ \E p \in Products : prod[p].fetch = "exhausted" /\ prod[p].reqs = MAX_RETRIES
  /\ \E d \in Paths : dl[d].st = "exhausted" /\ dl[d].reqs = MAX_RETRIES

\* C4: the attempt that receives a 404 is the last step of its operation: the
\* operation is over as NotFound, with no request and no sleep after it (so a
\* resource that answers 404 at once gets exactly one request).
C4_NotFoundFinal ==
  /\ \A p \in Products :
       prod[p].got404 =>
         /\ prod[p].fetch = "notfound"
         /\ prod[p].st \notin {"fetching", "fetch_sleep"}
         /\ prod[p].reqs = prod[p].fails + 1
         /\ prod[p].sleeps = prod[p].fails
  /\ \A d \in Paths :
       dl[d].got404 =>
         /\ dl[d].st = "notfound"
         /\ d \notin holders
         /\ dl[d].reqs = dl[d].fails + 1
         /\ dl[d].sleeps = dl[d].fails

C4_Witness ==
  /\ \E p \in Products :
       prod[p].got404 /\ prod[p].reqs = 1 /\ prod[p].sleeps = 0
  /\ \E d \in Paths : dl[d].got404 /\ dl[d].reqs = 1 /\ dl[d].sleeps = 0

\* What product q's finished pipeline is: the two description artifacts
\* written if the page has lines, and every resolvable slide's download ended
\* in a status of its own.
Completed(q) ==
  LET page == prod[q].page
      lines == JpLines(page)
  IN
  /\ prod[q].st = "done"
  /\ q \in dirs
  /\ lines # <<>> =>
       /\ jpfile[q] = [exists |-> TRUE, content |-> JoinNL(lines)]
       /\ vifile[q].exists
       /\ Len(vifile[q].content) = Len(JoinNL(lines))
  /\ \A s \in SlideTasks(page) :
       dl[<<q, s>>].st \in {"skipped", "downloaded", "notfound", "exhausted"}

\* C5: when the run is over and every other product's page fetch failed (404
\* or retries exhausted), a product whose own page was fetched and whose own
\* steps raised nothing has completed its pipeline.
C5_OtherCompletes ==
  \A q \in queue :
    ( /\ RunOver
      /\ prod[q].fetch = "html"
      /\ prod[q].st # "raised"
      /\ \A p \in queue \ {q} : FetchFailed(p) ) => Completed(q)

C5_Witness ==
  /\ mainpc = "returned"
  /\ queue = Products
  /\ \E p \in Products : prod[p].fetch = "exhausted"
  /\ \E q \in Products :
       /\ Completed(q)
       /\ JpLines(prod[q].page) # <<>>
       /\ \E s \in SLIDE_RANGE : dl[<<q, s>>].st = "downloaded"

\* C6: an exception raised in one product's pipeline never cancels another
\* product's pipeline.
C6_NoCancel ==
  \A p, q \in queue : (p # q /\ prod[p].st = "raised") => prod[q].st # "cancelled"

\* The lines <pid>.vi.txt may hold for these source lines: at each position the
\* translation of that line, or the line itself.
Translations(lines) ==
  {v \in [DOMAIN lines -> {Translate(JpLine(i)) : i \in 1..NumLines}
                          \cup {JpLine(i) : i \in 1..NumLines}] :
     \A i \in DOMAIN lines : v[i] \in {Translate(lines[i]), lines[i]}}

\* C7: a written <pid>.vi.txt holds at position i what translate_text gave for
\* line i of the page, whatever the order the calls returned in, and
\* <pid>.jp.txt holds the lines in page order.
C7_OrderPreserved ==
  \A p \in Products :
    LET lines == JpLines(prod[p].page) IN
    /\ \A i \in DOMAIN prod[p].trans :
         prod[p].trans[i] \in {Pending, Translate(lines[i]), lines[i]}
    /\ vifile[p].content # <<>> =>
         /\ vifile[p].content \in {JoinNL(v) : v \in Translations(lines)}
         /\ jpfile[p].content = JoinNL(lines)

C7_Witness ==
  \E p \in Products :
    /\ Len(JpLines(prod[p].page)) >= 2
    /\ vifile[p].content =
         JoinNL([i \in DOMAIN JpLines(prod[p].page) |->
                   IF i = 1 THEN JpLine(1) ELSE Translate(JpLine(i))])

\* C8: with an empty identifier list the program issues no request, not even
\* the warm-up, starts no product and creates no directory.
C8_EmptyQueueNoop ==
  queue = {} =>
    /\ mainpc \in {"check", "exit"}
    /\ warm = 0
    /\ \A p \in Products : prod[p].st = "idle" /\ prod[p].reqs = 0
    /\ \A d \in Paths : dl[d].st = "none" /\ dl[d].reqs = 0
    /\ dirs = DirsOf(file)
    /\ sem = 0

C8_Witness == queue = {} /\ mainpc = "exit"

C10_EndsWithAllDone ==
  RunOver => \A p \in queue : prod[p].st \in {"done", "failed", "raised"}

\* C11: a line the provider raised on is in the results as the source line, at
\* its own position, with one error record logged for it; the other lines hold
\* the provider's text (or are still out); a product never raises while
\* translations are out, and once it is past the description phase the
\* translated artifact holds the joined results.
C11_TranslateFallback ==
  \A p \in Products :
    LET lines == JpLines(prod[p].page)
        trans == prod[p].trans
    IN
    /\ \A i \in prod[p].terr : trans[i] = lines[i]
    /\ prod[p].tlog = Cardinality(prod[p].terr)
    /\ \A i \in DOMAIN trans \ prod[p].terr : trans[i] \in {Pending, Translate(lines[i])}
    /\ prod[p].st = "translating" => \E i \in DOMAIN trans : trans[i] = Pending
    /\ prod[p].st = "raised" => \A i \in DOMAIN trans : trans[i] # Pending
    /\ (prod[p].st \in {"imaging", "done"} /\ lines # <<>>) =>
         /\ DOMAIN trans = DOMAIN lines
         /\ vifile[p] = [exists |-> TRUE, content |-> JoinNL(trans)]

C11_Witness ==
  \E p \in Products :
    /\ prod[p].st = "done"
    /\ prod[p].terr # {}
    /\ prod[p].terr # DOMAIN prod[p].trans
    /\ vifile[p].exists
    /\ \E i \in DOMAIN prod[p].trans : prod[p].trans[i] = Translate(JpLines(prod[p].page)[i])

NonDecreasing(seq) == \A i, j \in DOMAIN seq : i <= j => seq[i] <= seq[j]

\* C12: the k-th sleep (k from 0) of a page fetch lasts 2^k + 0.5 seconds and
\* that of an image download k + 1 seconds (here in half seconds), so the
\* lengths never decrease; a sleep comes only between two attempts: there is
\* one sleep less than requests, or as many while a sleep is on (or was on
\* when the run was cancelled), and never one after attempt MAX_RETRIES.
C12_BackoffDelays ==
  /\ \A p \in Products :
       LET ds == prod[p].delays IN
       /\ \A k \in DOMAIN ds : ds[k] = 2 * (2 ^ (k - 1)) + 1
       /\ NonDecreasing(ds)
       /\ Len(ds) = prod[p].sleeps
       /\ Len(ds) <= MAX_RETRIES - 1
       /\ prod[p].st = "fetch_sleep" => Len(ds) = prod[p].reqs /\ prod[p].reqs < MAX_RETRIES
       /\ (prod[p].st \notin {"fetch_sleep", "cancelled"} /\ prod[p].reqs > 0) =>
            Len(ds) = prod[p].reqs - 1
       /\ (prod[p].st = "cancelled" /\ prod[p].reqs = MAX_RETRIES) =>
            Len(ds) = prod[p].reqs - 1
  /\ \A d \in Paths :
       LET ds == dl[d].delays IN
       /\ \A k \in DOMAIN ds : ds[k] = 2 * k
       /\ NonDecreasing(ds)
       /\ Len(ds) = dl[d].sleeps
       /\ Len(ds) <= MAX_RETRIES - 1
       /\ dl[d].st = "sleeping" => Len(ds) = dl[d].reqs /\ dl[d].reqs < MAX_RETRIES
       /\ (dl[d].st \notin {"sleeping", "cancelled"} /\ dl[d].reqs > 0) =>
            Len(ds) = dl[d].reqs - 1
       /\ (dl[d].st = "cancelled" /\ dl[d].reqs = MAX_RETRIES) =>
            Len(ds) = dl[d].reqs - 1

C12_Witness ==
  /\ \E p \in Products : prod[p].fetch = "exhausted" /\ prod[p].delays = <<3, 5>>
  /\ \E d \in Paths : dl[d].st = "exhausted" /\ dl[d].delays = <<2, 4>>

\* C13: the URL handed to a download task is "https:" + src for a src that
\* starts with "//", the origin + src for a src that starts with one "/", the
\* src itself for an absolute src, and it is always an absolute URL.
C13_UrlAbsolute ==
  \A d \in Paths :
    dl[d].st # "none" =>
      LET src == prod[d[1]].page.imgs[d[2]] IN
      /\ StartsWith(src, <<"/", "/">>) => dl[d].url = <<"https:">> \o src
      /\ (StartsWith(src, <<"/">>) /\ ~StartsWith(src, <<"/", "/">>)) =>
           dl[d].url = Origin \o src
      /\ Absolute(src) => dl[d].url = src
      /\ Absolute(dl[d].url)

\* C14: every failed attempt (the task then sleeps or has ended exhausted),
\* every skip of an image that is already there and every NotFound or
\* Exhausted end has appended at least one record to the log.
C14_EveryOutcomeLogged ==
  /\ \A p \in Products :
       (prod[p].st = "fetch_sleep" \/ FetchFailed(p)) => prod[p].logged >= 1
  /\ \A d \in Paths :
       dl[d].st \in {"sleeping", "skipped", "notfound", "exhausted"} => dl[d].logged >= 1

Holding == {d \in Paths : dl[d].st \in {"inflight", "sleeping"}}

\* C15: the tasks that hold a permit are those between their first request and
\* their end; a task that is over (file written, 404, exhausted, cancelled,
\* skipped) holds none, the permits out are those of the holders, and with no
\* task left running all MAX_CONN permits are back.
C15_PermitReleased ==
  /\ holders = Holding
  /\ \A d \in Paths : TaskOver(dl[d].st) => d \notin holders
  /\ mainpc \in {"gather", "returned", "crashed"} =>
       /\ sem = MAX_CONN - Cardinality(Holding)
       /\ (\A d \in Paths : TaskOver(dl[d].st) \/ dl[d].st \in {"new", "waiting"}) =>
            sem = MAX_CONN

C15_Witness ==
  /\ mainpc = "crashed"
  /\ sem = MAX_CONN
  /\ \E d \in Paths : dl[d].st = "cancelled" /\ dl[d].acq = 1
  /\ \E d \in Paths : dl[d].st \in {"downloaded", "notfound", "exhausted"} /\ dl[d].acq = 1

\* C16: a product whose page fetch ended in a 404 or ran out of attempts is
\* over as failed: no directory was made for it (one is there only if the
\* disk had it), neither description file exists, no translation was started
\* and it has no download task.
C16_FailedFetchDoesNothing ==
  \A p \in Products :
    FetchFailed(p) =>
      /\ prod[p].st = "failed"
      /\ (p \in dirs) <=> (p \in DirsOf(file))
      /\ jpfile[p] = NoFile
      /\ vifile[p] = NoFile
      /\ prod[p].trans = <<>> /\ prod[p].terr = {} /\ prod[p].tlog = 0
      /\ \A s \in SLIDE_RANGE :
           /\ dl[<<p, s>>].st = "none"
           /\ dl[<<p, s>>].created = 0
           /\ dl[<<p, s>>].reqs = 0
           /\ file[<<p, s>>] \in {FreshDisk[<<p, s>>], PriorDisk[<<p, s>>]}

C16_Witness ==
  /\ mainpc = "returned"
  /\ \E p, q \in queue :
       /\ prod[p].fetch = "notfound" /\ p \notin dirs
       /\ prod[q].fetch = "exhausted" /\ q \notin dirs
       /\ prod[p].st = "failed" /\ prod[q].st = "failed"

NoDescription(page) == ~page.hasUl \/ \A k \in DOMAIN page.lis : page.lis[k] = Blank

\* C17: for a fetched page without the description list, or with no
\* non-blank line in it, whose directory could be made: neither description
\* file is written and no translation is started, and the product goes on to
\* its images: every slide that has a src has its download task, the others
\* none.
C17_NoDescriptionStillImages ==
  \A p \in Products :
    (prod[p].fetch = "html" /\ NoDescription(prod[p].page) /\ prod[p].st # "raised") =>
      /\ jpfile[p] = NoFile
      /\ vifile[p] = NoFile
      /\ prod[p].trans = <<>> /\ prod[p].tlog = 0
      /\ prod[p].st \in {"imaging", "done", "cancelled"}
      /\ \A s \in SLIDE_RANGE :
           IF prod[p].page.imgs[s] # NoSrc
             THEN dl[<<p, s>>].st # "none" /\ dl[<<p, s>>].created = 1
             ELSE dl[<<p, s>>].st = "none" /\ dl[<<p, s>>].created = 0

C17_Witness ==
  \E p \in Products :
    /\ prod[p].fetch = "html"
    /\ prod[p].page.hasUl
    /\ NoDescription(prod[p].page)
    /\ prod[p].st = "done"
    /\ \E s \in SLIDE_RANGE : dl[<<p, s>>].reqs > 0 /\ TaskOver(dl[<<p, s>>].st)

\* C18: a download that found no file at its path never leaves a file of
\* length 0 there: the path stays without a file or holds the data; and a task
\* is downloaded only with its one write of a non-empty body done.
C18_NoZeroLengthFile ==
  \A d \in Paths :
    /\ (dl[d].found = "absent" /\ dl[d].reqs > 0) => file[d] \in {"absent", "data"}
    /\ dl[d].st = "downloaded" => dl[d].writes = 1 /\ file[d] = "data"

\* C19: a task in a request or in a backoff sleep holds its permit; while
\* MAX_CONN tasks hold one no permit is free, so no other task issues its
\* first request; and no task's wait for a permit ends without the permit.
C19_PermitKeptWaitersAdmitted ==
  /\ \A d \in Paths : dl[d].st \in {"inflight", "sleeping"} => d \in holders
  /\ Cardinality(holders) = MAX_CONN =>
       /\ sem = 0
       /\ \A d \in Paths \ holders : ~ENABLED DlAcquire(d)
  /\ \A d \in Paths : dl[d].st = "waiting" => dl[d].reqs = 0
  /\ \A d \in Paths : dl[d].cancelledIn # "waiting"

DescriptionPhase == {"writing_jp", "translating", "writing_vi"}

\* C20: a product has download tasks only with its description phase over
\* (both files written with every line's translation in, or nothing to
\* describe), and none, and no image request, while it fetches or describes;
\* translations exist only with the source file written, and the translated
\* file only with the source file.
C20_DescribeThenImages ==
  \A p \in Products :
    LET lines == JpLines(prod[p].page)
        tasks == {s \in SLIDE_RANGE : dl[<<p, s>>].st # "none"}
    IN
    /\ tasks # {} =>
         IF lines = <<>>
           THEN jpfile[p] = NoFile /\ vifile[p] = NoFile /\ prod[p].trans = <<>>
           ELSE /\ jpfile[p] = [exists |-> TRUE, content |-> JoinNL(lines)]
                /\ DOMAIN prod[p].trans = DOMAIN lines
                /\ \A i \in DOMAIN lines : prod[p].trans[i] # Pending
                /\ vifile[p] = [exists |-> TRUE, content |-> JoinNL(prod[p].trans)]
    /\ prod[p].st \in DescriptionPhase \cup {"idle", "fetching", "fetch_sleep"} =>
         \A s \in SLIDE_RANGE :
           /\ dl[<<p, s>>].st = "none"
           /\ dl[<<p, s>>].created = 0
           /\ dl[<<p, s>>].reqs = 0
    /\ prod[p].trans # <<>> => jpfile[p] = [exists |-> TRUE, content |-> JoinNL(lines)]
    /\ vifile[p].exists => jpfile[p] = [exists |-> TRUE, content |-> JoinNL(lines)]

C20_Witness ==
  \E p \in Products :
    /\ JpLines(prod[p].page) # <<>>
    /\ vifile[p].exists /\ jpfile[p].exists
    /\ prod[p].st = "imaging"
    /\ \E s \in SLIDE_RANGE : dl[<<p, s>>].st = "inflight" /\ dl[<<p, s>>].reqs = 1

====
